---------------------------- MODULE Spec2Model ----------------------------
(***************************************************************************)
(* DashboardMetrics (frontend/components/dashboard_metrics.tsx): the       *)
(* component state kept by useState, the data-fetching effect keyed on     *)
(* apiUrl, the continuations of the async function fetchMetrics, and the   *)
(* render function.                                                        *)
(*                                                                         *)
(* One mounted instance is modelled.  A continuation of fetchMetrics (the  *)
(* code between two awaits) is one step: its setState calls are batched    *)
(* into one render.  A render with a changed base URL and the effect run   *)
(* it causes are one step.  No cleanup is returned by the effect, so the   *)
(* continuations of every issued fetch run whenever the transport settles  *)
(* them, in any order.  Numbers with a fraction are held in tenths (35 is  *)
(* 3.5) and formatted as JavaScript's Number::toString formats them.       *)
(***************************************************************************)
EXTENDS Integers, Sequences, FiniteSets, TLC

VARIABLES
    metrics,     \* useState<DashboardMetrics | null>(null)
    loading,     \* useState(true)
    error,       \* useState<string | null>(null)
    apiUrl,      \* the base URL of the current render
    deps,        \* the dependency array [apiUrl] the effect last ran with
    fetches,     \* the calls of fetchMetrics, in the order they were issued
    urlHistory   \* the successive base-URL values the instance was rendered with

vars == <<metrics, loading, error, apiUrl, deps, fetches, urlHistory>>

---------------------------------------------------------------------------
(* Bounds *)

MaxFetches == 3      \* requests one instance issues
MaxEntries == 3      \* entries of applications_by_status

---------------------------------------------------------------------------
(* Values *)

NullMetrics == [null |-> TRUE]      \* metrics === null (or any falsy body)
NullError == "null"                 \* error === null
NoDeps == "none"                    \* the effect has not run yet

ErrorMessage == "Failed to load metrics"
NoMetricsMessage == "No metrics available"

DefaultUrl == "http://localhost:8000"
Urls == {DefaultUrl, "https://api.example.org"}

Statuses == {200, 204, 404, 500}
ResponseOk(status) == status >= 200 /\ status <= 299

Failures == {"network", "http", "decode"}

---------------------------------------------------------------------------
(* Payloads *)

Labels == {"Applied", "Interview", "Rejected", "2", "10"}
Counts == {2, 5, 12}
Avgs == {-15, 0, 5, 35, 120}        \* tenths: -1.5, 0, 0.5, 3.5, 12

Range(s) == {s[i] : i \in 1..Len(s)}

SeqsUpTo(S, n) == UNION {[1..k -> S] : k \in 0..n}

\* applications_by_status as received: the entries of the JSON object in the
\* order of the response text, keys unique.
StatusMaps ==
    {m \in SeqsUpTo(Labels \X Counts, MaxEntries) :
        \A i, j \in 1..Len(m) : i # j => m[i][1] # m[j][1]}

Payload(avg, byStatus) ==
    [total_applications |-> 19,
     interview_rate |-> 105,
     offer_rate |-> 50,
     avg_time_to_response |-> avg,
     applications_last_7_days |-> 3,
     applications_last_30_days |-> 8,
     active_applications |-> 7,
     applications_by_status |-> byStatus]

SpecExample == <<<<"Applied", 5>>, <<"Interview", 12>>, <<"Rejected", 2>>>>

\* The payloads the renderer is checked over: every average with one mapping,
\* and every mapping with one average.
AllPayloads ==
    {Payload(a, SpecExample) : a \in Avgs} \cup {Payload(35, m) : m \in StatusMaps}

\* The response bodies of the fetch state machine: a falsy body and three
\* payloads.
Bodies ==
    {NullMetrics,
     Payload(35, SpecExample),
     Payload(0, <<<<"Applied", 5>>, <<"10", 5>>, <<"2", 5>>>>),
     Payload(-15, <<>>)}

---------------------------------------------------------------------------
(* Rendering: pure functions of the component state *)

Digit(d) == <<"0", "1", "2", "3", "4", "5", "6", "7", "8", "9">>[d + 1]

RECURSIVE IntToString(_)
IntToString(n) ==
    IF n < 10 THEN Digit(n) ELSE IntToString(n \div 10) \o Digit(n % 10)

\* `${x}` of a number x held in tenths: Number::toString, shortest form.
NumberToString(t) ==
    LET a == IF t < 0 THEN -t ELSE t
    IN  (IF t < 0 THEN "-" ELSE "")
            \o IntToString(a \div 10)
            \o (IF a % 10 = 0 THEN "" ELSE "." \o Digit(a % 10))

\* Property keys that are canonical array indices ("2", "10") and their values.
IsArrayIndex(label) == label \in {"2", "10"}
IndexValue(label) == IF label = "2" THEN 2 ELSE IF label = "10" THEN 10 ELSE -1

\* Variant of Compare: the count comparator ascending, (a, b) => a[1] - b[1].
Compare_Ascending(by, a, b) ==
    IF by = "index" THEN IndexValue(a[1]) - IndexValue(b[1]) ELSE a[2] - b[2]

\* The comparators handed to the sorts: the property order of array-index
\* keys, and (a, b) => b[1] - a[1] on [label, count] entries.
Compare(by, a, b) ==
    IF by = "index" THEN IndexValue(a[1]) - IndexValue(b[1]) ELSE b[2] - a[2]

\* Array.prototype.sort: the stable order of the comparator; an element goes
\* after those that compare before it and after its equals that preceded it.
ArraySort(s, by) ==
    LET n == Len(s)
        Before(j, i) ==
            \/ Compare(by, s[j], s[i]) < 0
            \/ Compare(by, s[j], s[i]) = 0 /\ j < i
        Rank(i) == 1 + Cardinality({j \in 1..n : Before(j, i)})
    IN  [p \in 1..n |-> s[CHOOSE i \in 1..n : Rank(i) = p]]

\* Object.entries of the decoded object: own properties in property order,
\* array-index keys first in ascending numeric order, then the other string
\* keys in the order they were created (the order of the response text).
ObjectEntries(received) ==
    ArraySort(SelectSeq(received, LAMBDA e : IsArrayIndex(e[1])), "index")
        \o SelectSeq(received, LAMBDA e : ~IsArrayIndex(e[1]))

\* Object.entries(...).sort((a, b) => b[1] - a[1])
StatusBreakdown(byStatus) == ArraySort(ObjectEntries(byStatus), "count")

\* Variant of AvgTimeCard: the test is >= 0, so 0 is shown as "0 days".
AvgTimeCard_ZeroIsAvailable(avg) ==
    IF avg >= 0 THEN NumberToString(avg) \o " days" ELSE "N/A"

AvgTimeCard(avg) ==
    IF avg > 0 THEN NumberToString(avg) \o " days" ELSE "N/A"

MetricsCards(m) ==
    [kind |-> "ready",
     total_applications |-> m.total_applications,
     interview_rate |-> NumberToString(m.interview_rate) \o "%",
     offer_rate |-> NumberToString(m.offer_rate) \o "%",
     active_applications |-> m.active_applications,
     last_7_days |-> m.applications_last_7_days,
     last_30_days |-> m.applications_last_30_days,
     avg_time_to_response |-> AvgTimeCard(m.avg_time_to_response),
     breakdown |-> StatusBreakdown(m.applications_by_status)]

ErrorView(message) == [kind |-> "error", message |-> message]

\* The return value of DashboardMetrics for the current state.
View ==
    IF loading THEN [kind |-> "loading"]
    ELSE IF error # NullError \/ metrics = NullMetrics
         THEN ErrorView(IF error # NullError THEN error ELSE NoMetricsMessage)
         ELSE MetricsCards(metrics)

---------------------------------------------------------------------------
(* The component *)

Init ==
    /\ metrics = NullMetrics
    /\ loading = TRUE
    /\ error = NullError
    /\ apiUrl \in Urls
    /\ deps = NoDeps
    /\ fetches = <<>>
    /\ urlHistory = <<apiUrl>>

Outstanding(f) == fetches[f].pc # "done"

\* Variant of FetchMetricsStart: the error is reset when a fetch begins.
FetchMetricsStart_ClearsError(u) ==
    /\ loading' = TRUE
    /\ error' = NullError
    /\ fetches' = Append(fetches,
            [url |-> u, pc |-> "awaitFetch", outcome |-> "pending",
             data |-> NullMetrics])
    /\ UNCHANGED metrics

\* fetchMetrics() up to its first await: setLoading(true) and the GET request.
FetchMetricsStart(u) ==
    /\ loading' = TRUE
    /\ fetches' = Append(fetches,
            [url |-> u, pc |-> "awaitFetch", outcome |-> "pending",
             data |-> NullMetrics])
    /\ UNCHANGED <<metrics, error>>

\* Variant of CatchFinally: the message names the cause.
CatchFinally_PerCause(f, cause) ==
    /\ error' = IF cause = "network" THEN "Network error" ELSE ErrorMessage
    /\ loading' = FALSE
    /\ fetches' = [fetches EXCEPT ![f].pc = "done", ![f].outcome = cause]
    /\ UNCHANGED metrics

\* Variant of CatchFinally: the catch block calls fetchMetrics() again.
CatchFinally_Retries(f, cause) ==
    /\ error' = ErrorMessage
    /\ loading' = (Len(fetches) < MaxFetches)
    /\ fetches' =
           LET settled == [fetches EXCEPT ![f].pc = "done", ![f].outcome = cause]
           IN  IF Len(fetches) < MaxFetches
               THEN Append(settled,
                        [url |-> fetches[f].url, pc |-> "awaitFetch",
                         outcome |-> "pending", data |-> NullMetrics])
               ELSE settled
    /\ UNCHANGED metrics

\* Variant of CatchFinally: the catch block also clears the payload.
CatchFinally_ClearsMetrics(f, cause) ==
    /\ error' = ErrorMessage
    /\ loading' = FALSE
    /\ metrics' = NullMetrics
    /\ fetches' = [fetches EXCEPT ![f].pc = "done", ![f].outcome = cause]

\* Variant of CatchFinally: no finally block, loading is left as it was.
CatchFinally_NoFinally(f, cause) ==
    /\ error' = ErrorMessage
    /\ fetches' = [fetches EXCEPT ![f].pc = "done", ![f].outcome = cause]
    /\ UNCHANGED <<metrics, loading>>

\* catch (err) { setError(...); console.error(err) } finally { setLoading(false) }
CatchFinally(f, cause) ==
    /\ error' = ErrorMessage
    /\ loading' = FALSE
    /\ fetches' = [fetches EXCEPT ![f].pc = "done", ![f].outcome = cause]
    /\ UNCHANGED metrics

\* The effect's first run, after the first render.
Mount ==
    /\ deps = NoDeps
    /\ deps' = apiUrl
    /\ FetchMetricsStart(apiUrl)
    /\ UNCHANGED <<apiUrl, urlHistory>>

\* A later render with base URL u; the effect runs again iff [apiUrl] changed.
Rerender(u) ==
    /\ deps # NoDeps
    /\ apiUrl' = u
    /\ urlHistory' = IF u # apiUrl THEN Append(urlHistory, u) ELSE urlHistory
    /\ IF u # deps
       THEN /\ Len(fetches) < MaxFetches
            /\ deps' = u
            /\ FetchMetricsStart(u)
       ELSE UNCHANGED <<deps, metrics, loading, error, fetches>>

\* await fetch(...) rejects: network failure.
FetchRejects(f) ==
    /\ f \in 1..Len(fetches)
    /\ fetches[f].pc = "awaitFetch"
    /\ CatchFinally(f, "network")
    /\ UNCHANGED <<apiUrl, deps, urlHistory>>

\* await fetch(...) resolves with a response of the given status.
ResponseArrives(f, status) ==
    /\ f \in 1..Len(fetches)
    /\ fetches[f].pc = "awaitFetch"
    /\ IF ResponseOk(status)
       THEN /\ fetches' = [fetches EXCEPT ![f].pc = "awaitJson"]
            /\ UNCHANGED <<metrics, loading, error>>
       ELSE CatchFinally(f, "http")
    /\ UNCHANGED <<apiUrl, deps, urlHistory>>

\* Variant of JsonResolves: setLoading(false) is missing on the success path.
JsonResolves_KeepsLoading(f, data) ==
    /\ f \in 1..Len(fetches)
    /\ fetches[f].pc = "awaitJson"
    /\ metrics' = data
    /\ fetches' = [fetches EXCEPT ![f].pc = "done", ![f].outcome = "ok",
                                  ![f].data = data]
    /\ UNCHANGED <<loading, error, apiUrl, deps, urlHistory>>

\* Variant of JsonResolves: setMetrics(data) is missing.
JsonResolves_DropsData(f, data) ==
    /\ f \in 1..Len(fetches)
    /\ fetches[f].pc = "awaitJson"
    /\ loading' = FALSE
    /\ fetches' = [fetches EXCEPT ![f].pc = "done", ![f].outcome = "ok",
                                  ![f].data = data]
    /\ UNCHANGED <<metrics, error, apiUrl, deps, urlHistory>>

\* await response.json() resolves: setMetrics(data), then finally.
JsonResolves(f, data) ==
    /\ f \in 1..Len(fetches)
    /\ fetches[f].pc = "awaitJson"
    /\ metrics' = data
    /\ loading' = FALSE
    /\ fetches' = [fetches EXCEPT ![f].pc = "done", ![f].outcome = "ok",
                                  ![f].data = data]
    /\ UNCHANGED <<error, apiUrl, deps, urlHistory>>

\* await response.json() rejects: the body is not JSON.
JsonRejects(f) ==
    /\ f \in 1..Len(fetches)
    /\ fetches[f].pc = "awaitJson"
    /\ CatchFinally(f, "decode")
    /\ UNCHANGED <<apiUrl, deps, urlHistory>>

Next ==
    \/ Mount
    \/ \E u \in Urls : Rerender(u)
    \/ \E f \in 1..MaxFetches : FetchRejects(f)
    \/ \E f \in 1..MaxFetches : \E status \in Statuses : ResponseArrives(f, status)
    \/ \E f \in 1..MaxFetches : \E data \in Bodies : JsonResolves(f, data)
    \/ \E f \in 1..MaxFetches : JsonRejects(f)

Spec == Init /\ [][Next]_vars

\* The transport resolves or rejects every request it was given, and React
\* runs the effect after the first render.
Settles(f) ==
    \/ FetchRejects(f)
    \/ \E status \in Statuses : ResponseArrives(f, status)
    \/ \E data \in Bodies : JsonResolves(f, data)
    \/ JsonRejects(f)

FairSpec ==
    Spec /\ WF_vars(Mount) /\ \A f \in 1..MaxFetches : WF_vars(Settles(f))

\* The renderer over every payload: one fetch, any body.
RenderNext ==
    \/ Mount
    \/ \E status \in Statuses : ResponseArrives(1, status)
    \/ \E data \in AllPayloads : JsonResolves(1, data)

RenderSpec == Init /\ [][RenderNext]_vars

---------------------------------------------------------------------------
(* Steps and state functions the properties are stated with *)

\* How many of (loading = true), (error non-null), (metrics non-null) hold.
ActiveCount ==
    (IF loading THEN 1 ELSE 0)
        + (IF error # NullError THEN 1 ELSE 0)
        + (IF metrics # NullMetrics THEN 1 ELSE 0)

\* This step issues a request.
Issued == Len(fetches') = Len(fetches) + 1

\* This step settles fetch f with a decoded body / with a failure.
SettledOk(f) == fetches[f].outcome = "pending" /\ fetches'[f].outcome = "ok"
SettledFailed(f) ==
    fetches[f].outcome = "pending" /\ fetches'[f].outcome \in Failures

\* The held payload is data and the view is the metrics cards built from it.
ShowsCardsOf(data) ==
    /\ data # NullMetrics
    /\ metrics = data
    /\ View = MetricsCards(metrics)

SomeFetchFailed == \E f \in 1..Len(fetches) : fetches[f].outcome \in Failures

\* The position of the entry with the given label in a list of entries.
Pos(entries, label) == CHOOSE i \in 1..Len(entries) : entries[i][1] = label

NonIncreasing(b) == \A i, j \in 1..Len(b) : i < j => b[i][2] >= b[j][2]

IsPermutation(b, r) == Len(b) = Len(r) /\ Range(b) = Range(r)

---------------------------------------------------------------------------
(* C1 *)

\* C1 (as stated): in every reachable state exactly one of loading = true,
\* error non-null, metrics non-null holds.
C1_ExactlyOneStored == ActiveCount = 1

\* C1 (amended): while the mount fetch is the only fetch issued, at most one
\* of the three holds; and in every reachable state none of them holds only
\* when metrics was last set from a success body that decoded to null.
C1_AtMostOneOnFirstFetch ==
    /\ Len(fetches) <= 1 => ActiveCount <= 1
    /\ ActiveCount = 0 =>
           \E f \in 1..Len(fetches) :
               fetches[f].outcome = "ok" /\ fetches[f].data = NullMetrics

C1_Witness ==
    /\ Len(fetches) = 1
    /\ fetches[1].outcome = "ok"
    /\ ActiveCount = 1
    /\ View.kind = "ready"

---------------------------------------------------------------------------
(* C2 *)

---------------------------------------------------------------------------
(* C3 *)

\* C3: a fetch that ends in a network failure, a non-success status or a
\* decode failure leaves error = "Failed to load metrics" and loading = false,
\* whatever the cause, and the view is that message (no cards).
C3_ErrorUnification ==
    [][\A f \in 1..Len(fetches) :
          SettledFailed(f) =>
              /\ error' = ErrorMessage
              /\ loading' = FALSE
              /\ metrics' = metrics
              /\ View' = ErrorView(ErrorMessage)]_vars

C3_Witness ==
    /\ {fetches[f].outcome : f \in 1..Len(fetches)} = Failures
    /\ View = ErrorView(ErrorMessage)

---------------------------------------------------------------------------
(* C4 *)

\* C4 (as stated): the number of requests issued equals the number of
\* base-URL values the mounted component has seen (one fetch per value).
C4_OncePerUrlValue ==
    deps # NoDeps => Len(fetches) = Cardinality(Range(urlHistory))

\* C4 (amended): one request on mount and one per change of the base URL, to
\* the URL changed to; none in response to a fetch outcome.
C4_OncePerUrlChange ==
    /\ deps = NoDeps => fetches = <<>>
    /\ deps # NoDeps =>
           /\ Len(fetches) = Len(urlHistory)
           /\ \A i \in 1..Len(fetches) : fetches[i].url = urlHistory[i]

C4_Witness ==
    /\ Len(fetches) = 3
    /\ urlHistory[1] = urlHistory[3]
    /\ \E f \in 1..3 : fetches[f].outcome \in Failures
    /\ \E f \in 1..3 : fetches[f].outcome = "ok"

---------------------------------------------------------------------------
(* C5 *)

\* C5: while at least one fetch has been issued and has not settled, loading
\* is true and the view is the loading view.
C5_LoadingWhileOutstanding ==
    (\E f \in 1..Len(fetches) : Outstanding(f)) =>
        loading /\ View.kind = "loading"

---------------------------------------------------------------------------
(* C6 *)

\* C6: once a fetch has failed, error stays set and the view never shows the
\* metrics cards again, whatever settles later; a failure issues no request,
\* and a request is issued only by a change of the base URL.
C6_ErrorIsSticky ==
    [][/\ SomeFetchFailed' => error' = ErrorMessage /\ View'.kind # "ready"
       /\ \A f \in 1..Len(fetches) :
              SettledFailed(f) => Len(fetches') = Len(fetches)
       /\ SomeFetchFailed /\ Issued => apiUrl' # apiUrl]_vars

C6_Witness ==
    \E f, g \in 1..Len(fetches) :
        /\ f < g
        /\ fetches[f].outcome \in Failures
        /\ fetches[g].outcome = "ok"
        /\ fetches[g].data # NullMetrics
        /\ metrics = fetches[g].data
        /\ View = ErrorView(ErrorMessage)

---------------------------------------------------------------------------
(* C7 *)

\* C7 (as stated): when a new fetch begins, a held payload is discarded.
C7_DiscardedOnRefetch ==
    [][Issued /\ metrics # NullMetrics => metrics' # metrics]_vars

\* C7 (amended): a held payload is kept until a later fetch succeeds and
\* replaces it with its own body: beginning a fetch and a failed fetch leave
\* metrics as it was, and metrics changes only as a whole, to the body of the
\* fetch that settles in that step.
C7_ReplacedOnlyBySuccess ==
    [][/\ Issued => metrics' = metrics
       /\ \A f \in 1..Len(fetches) : SettledFailed(f) => metrics' = metrics
       /\ metrics' # metrics =>
              \E f \in 1..Len(fetches) :
                  SettledOk(f) /\ metrics' = fetches'[f].data]_vars

C7_Witness ==
    /\ Len(fetches) >= 2
    /\ fetches[1].outcome = "ok"
    /\ fetches[2].outcome \in Failures
    /\ metrics # NullMetrics
    /\ metrics = fetches[1].data

---------------------------------------------------------------------------
(* C8 *)

\* C8 (as stated): the status breakdown is a permutation of the mapping's
\* entries, counts non-increasing, equal counts in the order received.
C8_TiesInReceivedOrder ==
    View.kind = "ready" =>
        LET r == metrics.applications_by_status
            b == View.breakdown
        IN  /\ IsPermutation(b, r)
            /\ NonIncreasing(b)
            /\ \A i, j \in 1..Len(b) :
                   i < j /\ b[i][2] = b[j][2] =>
                       Pos(r, b[i][1]) < Pos(r, b[j][1])

\* C8 (amended): the status breakdown is a permutation of the mapping's
\* entries, counts non-increasing, equal counts in property order: labels
\* that are array-index strings first, by ascending numeric value, then the
\* other labels in the order received.
C8_TiesInPropertyOrder ==
    View.kind = "ready" =>
        LET r == metrics.applications_by_status
            b == View.breakdown
        IN  /\ IsPermutation(b, r)
            /\ NonIncreasing(b)
            /\ \A i, j \in 1..Len(b) :
                   i < j /\ b[i][2] = b[j][2] =>
                       LET x == b[i][1]
                           y == b[j][1]
                       IN  \/ IsArrayIndex(x) /\ ~IsArrayIndex(y)
                           \/ /\ IsArrayIndex(x) /\ IsArrayIndex(y)
                              /\ IndexValue(x) < IndexValue(y)
                           \/ /\ ~IsArrayIndex(x) /\ ~IsArrayIndex(y)
                              /\ Pos(r, x) < Pos(r, y)

C8_Witness ==
    /\ View.kind = "ready"
    /\ metrics.applications_by_status
           = <<<<"Applied", 5>>, <<"10", 5>>, <<"Interview", 12>>>>
    /\ View.breakdown = <<<<"Interview", 12>>, <<"10", 5>>, <<"Applied", 5>>>>

---------------------------------------------------------------------------
(* C9 *)

\* The decimal text of the averages the renderer is checked over.
DecimalText(avg) ==
    CASE avg = 5 -> "0.5" [] avg = 35 -> "3.5" [] avg = 120 -> "12"

\* C9: the average-time-to-response card shows "<value> days" exactly when
\* avg_time_to_response > 0, with the value unchanged, and "N/A" otherwise.
C9_AvgCard ==
    View.kind = "ready" =>
        LET a == metrics.avg_time_to_response
            c == View.avg_time_to_response
        IN  /\ a > 0 => c = DecimalText(a) \o " days"
            /\ a <= 0 => c = "N/A"
            /\ c = "N/A" => a <= 0

C9_Witness ==
    /\ View.kind = "ready"
    /\ metrics.avg_time_to_response = 35
    /\ View.avg_time_to_response = "3.5 days"

---------------------------------------------------------------------------
(* C10 *)

\* C10: every fetch that settles sets loading to false; loading becomes true
\* again only in a step that issues a request for a changed base URL; and,
\* when the transport settles every request, loading is eventually false.
C10_LoadingEnds ==
    /\ [][/\ \A f \in 1..Len(fetches) :
                 Outstanding(f) /\ ~Outstanding(f)' => loading' = FALSE
          /\ ~loading /\ loading' => Issued /\ apiUrl' # apiUrl]_vars
    /\ loading ~> ~loading

C10_Witness ==
    /\ Len(fetches) >= 2
    /\ \A f \in 1..Len(fetches) : ~Outstanding(f)
    /\ \E f \in 1..Len(fetches) : fetches[f].outcome = "ok"
    /\ \E f \in 1..Len(fetches) : fetches[f].outcome \in Failures
    /\ ~loading

=============================================================================
